---- MODULE Spec2Model ----
(***************************************************************************)
(* Model of rp-tools' linker handling (src/fastx_split/linkers.rs):        *)
(* LinkerSpec::new compiles two specification strings, and                 *)
(* LinkerSpec::split_record splits one FastQ record into UMI, sample       *)
(* index and insert.  split_record is modelled statement by statement, so  *)
(* that several workers sharing one LinkerSpec can be interleaved.         *)
(***************************************************************************)
EXTENDS Integers, Sequences, FiniteSets, TLC

\* ---------------------------------------------------------------- bounds
MaxSpecLen == 2
MaxSeqLen == 5
NumWorkers == 2
MaxCalls == 3
MaxTally == 4
MaxFlank == 6
\* Width of isize and usize in the model; the casts and the wrap-around
\* behave alike at every width (the code's is the target's pointer width).
WordBits == 16

\* ------------------------------------------------------------ input sets
\* Characters a specification string is drawn from: the two valid ones,
\* their lowercase forms and a blank.
SpecChars == {"N", "I", "n", "i", " "}
Bases == {"A", "C"}

SeqsUpTo(S, n) == UNION { [1..k -> S] : k \in 0..n }
SpecStrings == SeqsUpTo(SpecChars, MaxSpecLen)
ValidSpecStrings == SeqsUpTo({"N", "I"}, MaxSpecLen)

\* tests::fastq: a record whose quality is 32, 33, ... per position.
QualBase == 32
fastq(seq) == [seq |-> seq, qual |-> [k \in 1..Len(seq) |-> QualBase + (k - 1)]]

Records == { fastq(s) : s \in SeqsUpTo(Bases, MaxSeqLen) }

\* A few fixed reads of different lengths, for the runs that repeat calls
\* or run several workers (leading bases of the tests' SEQ1, SEQ2, SEQ3).
SEQ1 == <<"A", "C">>
SEQ2 == <<"A", "A", "A", "A">>
SEQ3 == <<"A", "T", "C", "G", "A">>
SampleRecords == { fastq(SEQ1), fastq(SEQ2), fastq(SEQ3) }

Workers == 1..NumWorkers
Main == 1

\* ------------------------------------------------------- result values
Ok(v) == [tag |-> "Ok", val |-> v]
Err(e) == [tag |-> "Err", val |-> e]
BadSpecChar(ch) == ch

Unparsed == [tag |-> "Unparsed", val |-> <<>>]
NoRecord == [seq |-> <<>>, qual |-> <<>>]
Blank == <<>>
Pending == [tag |-> "Pending", umi |-> Blank, sample_index |-> Blank,
            sequence |-> Blank, quality |-> Blank]
None == [tag |-> "None", umi |-> Blank, sample_index |-> Blank,
         sequence |-> Blank, quality |-> Blank]
Some(u, s, sq, q) == [tag |-> "Some", umi |-> u, sample_index |-> s,
                      sequence |-> sq, quality |-> q]

\* ------------------------------------------------------------ the parser
\* Variant: the match folds case, so 'n' and 'i' are accepted too.
LinkerNtSpec_new_anycase(ch) ==
    CASE ch \in {"N", "n"} -> Ok("UMI")
      [] ch \in {"I", "i"} -> Ok("SampleIndex")
      [] OTHER -> Err(BadSpecChar(ch))

LinkerNtSpec_new(ch) ==
    CASE ch = "N" -> Ok("UMI")
      [] ch = "I" -> Ok("SampleIndex")
      [] OTHER -> Err(BadSpecChar(ch))

\* chars().map(LinkerNtSpec::new).collect::<Result<Vec<_>, _>>(): left to
\* right, stopping at the first Err.
RECURSIVE collect(_, _, _)
collect(str, k, acc) ==
    IF k > Len(str) THEN Ok(acc)
    ELSE LET r == LinkerNtSpec_new(str[k])
         IN IF r.tag = "Err" THEN r ELSE collect(str, k + 1, Append(acc, r.val))

\* iter().filter(|nt| *nt == kind).count()
RECURSIVE count(_, _)
count(nts, kind) ==
    IF nts = <<>> THEN 0
    ELSE (IF Head(nts) = kind THEN 1 ELSE 0) + count(Tail(nts), kind)

\* Variant: the suffix is left out of the chained iterator.
chain_prefix_only(a, b) == a

\* prefix.iter().chain(suffix.iter())
chain(a, b) == a \o b

\* Variant: suffix_res? is unwrapped before prefix_res?.
LinkerSpec_new_suffix_first(p_str, s_str) ==
    LET prefix_res == collect(p_str, 1, <<>>)
        suffix_res == collect(s_str, 1, <<>>)
    IN IF suffix_res.tag = "Err" THEN suffix_res
       ELSE IF prefix_res.tag = "Err" THEN prefix_res
       ELSE Ok([prefix |-> prefix_res.val,
                suffix |-> suffix_res.val,
                sample_index_length |->
                    count(chain(prefix_res.val, suffix_res.val), "SampleIndex"),
                umi_length |->
                    count(chain(prefix_res.val, suffix_res.val), "UMI")])

LinkerSpec_new(p_str, s_str) ==
    LET prefix_res == collect(p_str, 1, <<>>)
        suffix_res == collect(s_str, 1, <<>>)
    IN IF prefix_res.tag = "Err" THEN prefix_res
       ELSE IF suffix_res.tag = "Err" THEN suffix_res
       ELSE Ok([prefix |-> prefix_res.val,
                suffix |-> suffix_res.val,
                sample_index_length |->
                    count(chain(prefix_res.val, suffix_res.val), "SampleIndex"),
                umi_length |->
                    count(chain(prefix_res.val, suffix_res.val), "UMI")])

prefix_length(sp) == Len(sp.prefix)
suffix_length(sp) == Len(sp.suffix)
linker_length(sp) == Len(sp.prefix) + Len(sp.suffix)
sample_index_length(sp) == sp.sample_index_length
umi_length(sp) == sp.umi_length

\* ------------------------------------------------ alignment statistics
\* (src/riboprof/fp_framing/stats.rs)
\* The values of BamFrameResult, as the matches of tally_bam_frame and
\* tally_fp_frame enumerate them; Fp carries an FpFrameResult.
Fp(x) == <<"Fp", x>>
FpFrameResults ==
    {"NoGene", "NoncodingOnly", "NoncodingOverlap", "MultiCoding",
     "Gene(NoCompatible)", "Gene(Ambig)", "Gene(Good)"}
BamFrameResults ==
    {<<"NoHit">>, <<"MultiHit">>, <<"TooShort">>, <<"TooLong">>}
        \cup { Fp(x) : x \in FpFrameResults }

AnnotStats_new ==
    [no_gene |-> 0, noncoding |-> 0, noncoding_overlap |-> 0,
     multi_coding |-> 0, incompatible |-> 0, ambig |-> 0, good |-> 0]

AlignStats_new ==
    [unmapped |-> 0, short |-> 0, long |-> 0, multi_hit |-> 0,
     annot_stats |-> AnnotStats_new]

\* A signed range that has not been given yet, and the FramingStats before
\* FramingStats::new has run.
NoRange == [start |-> 0, end |-> 0]
Unbuilt == [tag |-> "Unbuilt", flanking_len |-> 0, underflow |-> FALSE]

\* ----------------------------------------------------------------- state
VARIABLES prefix_str, suffix_str, linker, fq, pc, i, umi, sample_index,
          suffix_start, result, log,
          align_stats, frames, flanking, framing_stats

vars == <<prefix_str, suffix_str, linker, fq, pc, i, umi, sample_index,
          suffix_start, result, log,
          align_stats, frames, flanking, framing_stats>>

\* The state of the statistics module, which the linker code never touches.
statsvars == <<align_stats, frames, flanking, framing_stats>>
\* The state of the linker module, which the statistics code never touches.
linkervars == <<prefix_str, suffix_str, linker, fq, pc, i, umi, sample_index,
                suffix_start, result, log>>

InitWith(strings) ==
    /\ prefix_str \in strings
    /\ suffix_str \in strings
    /\ linker = Unparsed
    /\ fq = [w \in Workers |-> NoRecord]
    /\ pc = [w \in Workers |-> "idle"]
    /\ i = [w \in Workers |-> 0]
    /\ umi = [w \in Workers |-> <<>>]
    /\ sample_index = [w \in Workers |-> <<>>]
    /\ suffix_start = [w \in Workers |-> 0]
    /\ result = [w \in Workers |-> Pending]
    /\ log = <<>>
    /\ align_stats = AlignStats_new
    /\ frames = <<>>
    /\ flanking = NoRange
    /\ framing_stats = Unbuilt

Init == InitWith(SpecStrings)

\* LinkerSpec::new, run once at startup.
New ==
    /\ linker = Unparsed
    /\ linker' = LinkerSpec_new(prefix_str, suffix_str)
    /\ UNCHANGED <<prefix_str, suffix_str, fq, pc, i, umi, sample_index,
                   suffix_start, result, log>>

\* ---------------------------------------------------------- split_record
\* Rust indexes from 0; s[k] of the code is s[k + 1] here.
at(s, k) == s[k + 1]
\* Variant: the range starts at the front of the read instead of at lo.
slice_from_front(s, lo, hi) == SubSeq(s, 1, hi)

\* &s[lo..hi]; the caller checks lo <= hi <= len first (Rust panics otherwise).
slice(s, lo, hi) == SubSeq(s, lo + 1, hi)
slice_ok(s, lo, hi) == lo <= hi /\ hi <= Len(s)

\* Variant: the base is inserted at the front of the vector.
push_umi_front(nt, base, u) == IF nt = "UMI" THEN <<base>> \o u ELSE u

\* The match of one loop body: push the base onto umi or onto sample_index.
push_umi(nt, base, u) == IF nt = "UMI" THEN Append(u, base) ELSE u
push_sample_index(nt, base, s) == IF nt = "SampleIndex" THEN Append(s, base) ELSE s

Set(f, w, v) == [f EXCEPT ![w] = v]

\* Variant: the two vectors are buffers kept from the previous call and not
\* cleared.
Call_reuse_buffers(w, r) ==
    /\ linker.tag = "Ok"
    /\ pc[w] \in {"idle", "done"}
    /\ fq' = Set(fq, w, r)
    /\ pc' = Set(pc, w, "check")
    /\ result' = Set(result, w, Pending)
    /\ i' = Set(i, w, 0)
    /\ suffix_start' = Set(suffix_start, w, 0)
    /\ UNCHANGED <<prefix_str, suffix_str, linker, log, umi, sample_index>>

\* A worker takes record r and enters split_record: let sequence = fq.seq().
\* The locals of the call start here: the two vectors are new and empty
\* (Vec::new(); the code creates them inside the branch that uses them, and
\* nothing reads them before), the loop index and suffix_start hold nothing.
Call(w, r) ==
    /\ linker.tag = "Ok"
    /\ pc[w] \in {"idle", "done"}
    /\ fq' = Set(fq, w, r)
    /\ pc' = Set(pc, w, "check")
    /\ result' = Set(result, w, Pending)
    /\ umi' = Set(umi, w, <<>>)
    /\ sample_index' = Set(sample_index, w, <<>>)
    /\ i' = Set(i, w, 0)
    /\ suffix_start' = Set(suffix_start, w, 0)
    /\ UNCHANGED <<prefix_str, suffix_str, linker, log>>

\* Variant: the length test compares against the prefix alone.
CheckLen_prefix_only(w) ==
    /\ pc[w] = "check"
    /\ IF Len(fq[w].seq) >= Len(linker.val.prefix)
       THEN /\ pc' = Set(pc, w, "prefix")
            /\ UNCHANGED result
       ELSE /\ result' = Set(result, w, None)
            /\ pc' = Set(pc, w, "done")
    /\ UNCHANGED <<prefix_str, suffix_str, linker, fq, umi, sample_index, i,
                   suffix_start>>

\* if sequence.len() >= self.prefix.len() + self.suffix.len() { ... }
\* else { None }
CheckLen(w) ==
    /\ pc[w] = "check"
    /\ IF Len(fq[w].seq) >= Len(linker.val.prefix) + Len(linker.val.suffix)
       THEN /\ pc' = Set(pc, w, "prefix")
            /\ UNCHANGED result
       ELSE /\ result' = Set(result, w, None)
            /\ pc' = Set(pc, w, "done")
    /\ UNCHANGED <<prefix_str, suffix_str, linker, fq, umi, sample_index, i,
                   suffix_start>>

\* Variant: umi is one buffer shared by all workers (the main thread's).
PrefixIter_shared_umi(w) ==
    /\ pc[w] = "prefix"
    /\ i[w] < Len(linker.val.prefix)
    /\ IF i[w] >= Len(fq[w].seq)
       THEN /\ pc' = Set(pc, w, "panic")
            /\ UNCHANGED <<umi, sample_index, i>>
       ELSE /\ umi' = Set(umi, Main, push_umi(at(linker.val.prefix, i[w]),
                                              at(fq[w].seq, i[w]), umi[Main]))
            /\ sample_index' =
                 Set(sample_index, w,
                     push_sample_index(at(linker.val.prefix, i[w]),
                                       at(fq[w].seq, i[w]), sample_index[w]))
            /\ i' = Set(i, w, i[w] + 1)
            /\ UNCHANGED pc
    /\ UNCHANGED <<prefix_str, suffix_str, linker, fq, suffix_start, result>>

\* One iteration of for i in 0..self.prefix.len().
PrefixIter(w) ==
    /\ pc[w] = "prefix"
    /\ i[w] < Len(linker.val.prefix)
    /\ IF i[w] >= Len(fq[w].seq)
       THEN /\ pc' = Set(pc, w, "panic")
            /\ UNCHANGED <<umi, sample_index, i>>
       ELSE /\ umi' = Set(umi, w, push_umi(at(linker.val.prefix, i[w]),
                                           at(fq[w].seq, i[w]), umi[w]))
            /\ sample_index' =
                 Set(sample_index, w,
                     push_sample_index(at(linker.val.prefix, i[w]),
                                       at(fq[w].seq, i[w]), sample_index[w]))
            /\ i' = Set(i, w, i[w] + 1)
            /\ UNCHANGED pc
    /\ UNCHANGED <<prefix_str, suffix_str, linker, fq, suffix_start, result>>

\* let suffix_start = sequence.len() - self.suffix.len(); an unsigned
\* subtraction: below zero it panics (debug build) or wraps to an index far
\* past the end, where the first suffix iteration panics (release build).
SuffixStart(w) ==
    /\ pc[w] = "prefix"
    /\ i[w] >= Len(linker.val.prefix)
    /\ IF Len(fq[w].seq) < Len(linker.val.suffix)
       THEN /\ pc' = Set(pc, w, "panic")
            /\ UNCHANGED <<suffix_start, i>>
       ELSE /\ suffix_start' =
                 Set(suffix_start, w, Len(fq[w].seq) - Len(linker.val.suffix))
            /\ i' = Set(i, w, 0)
            /\ pc' = Set(pc, w, "suffix")
    /\ UNCHANGED <<prefix_str, suffix_str, linker, fq, umi, sample_index, result>>

\* One iteration of for i in 0..self.suffix.len().
SuffixIter(w) ==
    /\ pc[w] = "suffix"
    /\ i[w] < Len(linker.val.suffix)
    /\ IF suffix_start[w] + i[w] >= Len(fq[w].seq)
       THEN /\ pc' = Set(pc, w, "panic")
            /\ UNCHANGED <<umi, sample_index, i>>
       ELSE /\ umi' = Set(umi, w, push_umi(at(linker.val.suffix, i[w]),
                                           at(fq[w].seq, suffix_start[w] + i[w]),
                                           umi[w]))
            /\ sample_index' =
                 Set(sample_index, w,
                     push_sample_index(at(linker.val.suffix, i[w]),
                                       at(fq[w].seq, suffix_start[w] + i[w]),
                                       sample_index[w]))
            /\ i' = Set(i, w, i[w] + 1)
            /\ UNCHANGED pc
    /\ UNCHANGED <<prefix_str, suffix_str, linker, fq, suffix_start, result>>

\* Variant: the quality range has the insert's length but starts at 0.
Return_quality_from_zero(w) ==
    /\ pc[w] = "suffix"
    /\ i[w] >= Len(linker.val.suffix)
    /\ IF /\ slice_ok(fq[w].seq, Len(linker.val.prefix), suffix_start[w])
          /\ slice_ok(fq[w].qual, Len(linker.val.prefix), suffix_start[w])
       THEN /\ result' =
                 Set(result, w,
                     Some(umi[w], sample_index[w],
                          slice(fq[w].seq, Len(linker.val.prefix), suffix_start[w]),
                          slice(fq[w].qual, 0,
                                suffix_start[w] - Len(linker.val.prefix))))
            /\ pc' = Set(pc, w, "done")
       ELSE /\ pc' = Set(pc, w, "panic")
            /\ UNCHANGED result
    /\ UNCHANGED <<prefix_str, suffix_str, linker, fq, i, umi, sample_index,
                   suffix_start>>

\* Variant: a read as long as the linker is returned as None.
Return_empty_is_none(w) ==
    /\ pc[w] = "suffix"
    /\ i[w] >= Len(linker.val.suffix)
    /\ IF /\ slice_ok(fq[w].seq, Len(linker.val.prefix), suffix_start[w])
          /\ slice_ok(fq[w].qual, Len(linker.val.prefix), suffix_start[w])
       THEN /\ result' =
                 Set(result, w,
                     IF Len(linker.val.prefix) = suffix_start[w] THEN None
                     ELSE Some(umi[w], sample_index[w],
                               slice(fq[w].seq, Len(linker.val.prefix),
                                     suffix_start[w]),
                               slice(fq[w].qual, Len(linker.val.prefix),
                                     suffix_start[w])))
            /\ pc' = Set(pc, w, "done")
       ELSE /\ pc' = Set(pc, w, "panic")
            /\ UNCHANGED result
    /\ UNCHANGED <<prefix_str, suffix_str, linker, fq, i, umi, sample_index,
                   suffix_start>>

\* Some(LinkerSplit { umi, sample_index, sequence: &sequence[p..suffix_start],
\* quality: &fq.qual()[p..suffix_start] })
Return(w) ==
    /\ pc[w] = "suffix"
    /\ i[w] >= Len(linker.val.suffix)
    /\ IF /\ slice_ok(fq[w].seq, Len(linker.val.prefix), suffix_start[w])
          /\ slice_ok(fq[w].qual, Len(linker.val.prefix), suffix_start[w])
       THEN /\ result' =
                 Set(result, w,
                     Some(umi[w], sample_index[w],
                          slice(fq[w].seq, Len(linker.val.prefix), suffix_start[w]),
                          slice(fq[w].qual, Len(linker.val.prefix), suffix_start[w])))
            /\ pc' = Set(pc, w, "done")
       ELSE /\ pc' = Set(pc, w, "panic")
            /\ UNCHANGED result
    /\ UNCHANGED <<prefix_str, suffix_str, linker, fq, i, umi, sample_index,
                   suffix_start>>

\* split_record as one evaluation, for a caller that runs it alone: the two
\* loops, then the two ranges.
RECURSIVE scan(_, _, _, _, _, _)
scan(nts, sequence, start, k, u, s) ==
    IF k >= Len(nts) THEN [umi |-> u, sample_index |-> s]
    ELSE scan(nts, sequence, start, k + 1,
              push_umi(at(nts, k), at(sequence, start + k), u),
              push_sample_index(at(nts, k), at(sequence, start + k), s))

split_record(sp, r) ==
    IF Len(r.seq) >= Len(sp.prefix) + Len(sp.suffix)
    THEN LET a == scan(sp.prefix, r.seq, 0, 0, <<>>, <<>>)
             start == Len(r.seq) - Len(sp.suffix)
             b == scan(sp.suffix, r.seq, start, 0, a.umi, a.sample_index)
         IN Some(b.umi, b.sample_index,
                 slice(r.seq, Len(sp.prefix), start),
                 slice(r.qual, Len(sp.prefix), start))
    ELSE None

\* ------------------------------------------------------- specifications
\* One thread: parse, then split records one after the other.
Next ==
    \/ New /\ UNCHANGED statsvars
    \/ \E r \in Records : Call(Main, r) /\ UNCHANGED statsvars
    \/ CheckLen(Main) /\ UNCHANGED log /\ UNCHANGED statsvars
    \/ PrefixIter(Main) /\ UNCHANGED log /\ UNCHANGED statsvars
    \/ SuffixStart(Main) /\ UNCHANGED log /\ UNCHANGED statsvars
    \/ SuffixIter(Main) /\ UNCHANGED log /\ UNCHANGED statsvars
    \/ Return(Main) /\ UNCHANGED log /\ UNCHANGED statsvars

Spec == Init /\ [][Next]_vars

\* =================================================================
\* Properties of LinkerSpec::new
\* =================================================================
IsSpecChar(ch) == ch \in {"N", "I"}
AllValid(str) == \A k \in 1..Len(str) : IsSpecChar(str[k])
Occurrences(str, ch) == Cardinality({ k \in 1..Len(str) : str[k] = ch })
CharsOf(str) == { str[k] : k \in 1..Len(str) }
\* The leftmost character of str that is neither 'N' nor 'I'.
LeftmostBad(str) ==
    str[CHOOSE k \in 1..Len(str) :
            /\ ~IsSpecChar(str[k])
            /\ \A j \in 1..(k - 1) : IsSpecChar(str[j])]
Parsed == linker.tag # "Unparsed"

\* C1: for strings made only of 'N' and 'I' (empty ones included) new
\* succeeds, prefix_length and suffix_length are the strings' lengths,
\* umi_length is the number of 'N' and sample_index_length the number of 'I'
\* over both strings, and sample_index_length + umi_length = linker_length
\* = prefix_length + suffix_length.
C1_ValidSpecLengths ==
    (Parsed /\ AllValid(prefix_str) /\ AllValid(suffix_str)) =>
        /\ linker.tag = "Ok"
        /\ prefix_length(linker.val) = Len(prefix_str)
        /\ suffix_length(linker.val) = Len(suffix_str)
        /\ umi_length(linker.val) =
             Occurrences(prefix_str, "N") + Occurrences(suffix_str, "N")
        /\ sample_index_length(linker.val) =
             Occurrences(prefix_str, "I") + Occurrences(suffix_str, "I")
        /\ sample_index_length(linker.val) + umi_length(linker.val)
             = linker_length(linker.val)
        /\ linker_length(linker.val)
             = prefix_length(linker.val) + suffix_length(linker.val)

C1_Witness ==
    /\ linker.tag = "Ok"
    /\ prefix_str = <<"N", "I">>
    /\ suffix_str = <<"I">>
    /\ umi_length(linker.val) = 1
    /\ sample_index_length(linker.val) = 2

\* C2: when either string holds a character other than uppercase 'N' or 'I',
\* new fails with BadSpecChar(c), c a character of the input that is not
\* 'N' or 'I'; no LinkerSpec exists, so no record is ever split, even when
\* the other string is valid.
C2_BadCharRejected ==
    (Parsed /\ ~(AllValid(prefix_str) /\ AllValid(suffix_str))) =>
        /\ linker.tag = "Err"
        /\ linker.val \in CharsOf(prefix_str) \cup CharsOf(suffix_str)
        /\ ~IsSpecChar(linker.val)
        /\ \A w \in Workers : pc[w] = "idle" /\ result[w] = Pending

C2_Witness ==
    /\ linker.tag = "Err"
    /\ prefix_str = <<"N", "I">>
    /\ suffix_str = <<"I", "n">>
    /\ linker.val = "n"

\* C10: with several invalid characters, the one named is the leftmost
\* invalid character of prefix_str when prefix_str has one, and otherwise
\* the leftmost invalid character of suffix_str.
C10_LeftmostPrefixFirst ==
    (Parsed /\ ~(AllValid(prefix_str) /\ AllValid(suffix_str))) =>
        /\ linker.tag = "Err"
        /\ linker.val = IF ~AllValid(prefix_str) THEN LeftmostBad(prefix_str)
                        ELSE LeftmostBad(suffix_str)

C10_Witness ==
    /\ linker.tag = "Err"
    /\ prefix_str = <<"n", " ">>
    /\ suffix_str = <<"i">>
    /\ linker.val = "n"

\* =================================================================
\* Properties of one split_record call (the single thread of Spec)
\* =================================================================
Returned(w) == pc[w] = "done"
SeqLen(w) == Len(fq[w].seq)
\* The linker slots in scan order (prefix, then suffix) whose role is kind,
\* each as the 1-based position of the read it is taken from: prefix slot k
\* is position k, suffix slot j is position L - S + j.
SlotKind(sp, k) ==
    IF k <= Len(sp.prefix) THEN sp.prefix[k] ELSE sp.suffix[k - Len(sp.prefix)]
SlotPos(sp, L, k) ==
    IF k <= Len(sp.prefix) THEN k ELSE L - Len(sp.suffix) + (k - Len(sp.prefix))
RECURSIVE SlotsFrom(_, _, _, _)
SlotsFrom(sp, L, kind, k) ==
    IF k > Len(sp.prefix) + Len(sp.suffix) THEN <<>>
    ELSE (IF SlotKind(sp, k) = kind THEN <<SlotPos(sp, L, k)>> ELSE <<>>)
         \o SlotsFrom(sp, L, kind, k + 1)
BasesAt(seq, positions) == [n \in 1..Len(positions) |-> seq[positions[n]]]

\* C3: split_record never panics, and it returns None exactly when the
\* sequence is strictly shorter than linker_length; a sequence at least as
\* long (quality of equal length) gives Some.
C3_NoneIffTooShort ==
    /\ pc[Main] # "panic"
    /\ Returned(Main) =>
         /\ result[Main].tag \in {"None", "Some"}
         /\ (result[Main].tag = "None") <=> (SeqLen(Main) < linker_length(linker.val))
         /\ (SeqLen(Main) >= linker_length(linker.val)) => result[Main].tag = "Some"

C3_Witness ==
    /\ Returned(Main)
    /\ result[Main].tag = "None"
    /\ SeqLen(Main) = 3
    /\ linker_length(linker.val) = 4
    /\ Len(linker.val.prefix) = 2

\* C4: for a sequence of length L >= linker_length, the split has
\* len(sequence) = len(quality) = L - linker_length, len(umi) = umi_length
\* and len(sample_index) = sample_index_length.
C4_SplitLengths ==
    (Returned(Main) /\ SeqLen(Main) >= linker_length(linker.val)) =>
        /\ result[Main].tag = "Some"
        /\ Len(result[Main].sequence) = SeqLen(Main) - linker_length(linker.val)
        /\ Len(result[Main].quality) = SeqLen(Main) - linker_length(linker.val)
        /\ Len(result[Main].umi) = umi_length(linker.val)
        /\ Len(result[Main].sample_index) = sample_index_length(linker.val)

C4_Witness ==
    /\ Returned(Main)
    /\ result[Main].tag = "Some"
    /\ SeqLen(Main) = 5
    /\ Len(linker.val.prefix) = 2
    /\ Len(linker.val.suffix) = 1
    /\ umi_length(linker.val) = 2
    /\ Len(result[Main].sequence) = 2

\* C5: umi is the bases at the UMI positions of the prefix in increasing
\* order, followed by the bases at the UMI positions of the suffix in
\* increasing order, the suffix being anchored to the end of the read
\* (suffix slot j reads position L - S + j); sample_index is the same over
\* the SampleIndex positions.
C5_OrderPreserved ==
    (Returned(Main) /\ result[Main].tag = "Some") =>
        /\ result[Main].umi =
             BasesAt(fq[Main].seq, SlotsFrom(linker.val, SeqLen(Main), "UMI", 1))
        /\ result[Main].sample_index =
             BasesAt(fq[Main].seq,
                     SlotsFrom(linker.val, SeqLen(Main), "SampleIndex", 1))

C5_Witness ==
    /\ Returned(Main)
    /\ prefix_str = <<"N", "I">>
    /\ suffix_str = <<"I", "N">>
    /\ fq[Main].seq = <<"A", "C", "C", "A", "C">>
    /\ result[Main].tag = "Some"
    /\ result[Main].umi = <<"A", "C">>
    /\ result[Main].sample_index = <<"C", "A">>

\* C6: sequence and quality of the split are the record's bases and
\* qualities over the same range [prefix_length, L - suffix_length):
\* element k of each is the record's element prefix_length + k, so with
\* qualities 32, 33, ... the insert quality starts at 32 + prefix_length and
\* rises by one per position.
C6_InsertAligned ==
    (Returned(Main) /\ result[Main].tag = "Some") =>
        LET P == prefix_length(linker.val)
            n == SeqLen(Main) - suffix_length(linker.val) - P
        IN /\ result[Main].sequence = [k \in 1..n |-> fq[Main].seq[P + k]]
           /\ result[Main].quality = [k \in 1..n |-> fq[Main].qual[P + k]]
           /\ \A k \in 1..n : result[Main].quality[k] = QualBase + P + (k - 1)

C6_Witness ==
    /\ Returned(Main)
    /\ prefix_str = <<"I">>
    /\ suffix_str = <<"N", "N">>
    /\ fq[Main].seq = <<"A", "C", "C", "A", "C">>
    /\ result[Main].tag = "Some"
    /\ result[Main].sequence = <<"C", "C">>
    /\ result[Main].quality = <<33, 34>>

\* C7: a sequence exactly as long as the linker gives Some, not None, with
\* empty sequence and quality and with umi and sample_index at their full
\* lengths.
C7_ExactLengthEmptyInsert ==
    (Returned(Main) /\ SeqLen(Main) = linker_length(linker.val)) =>
        /\ result[Main].tag = "Some"
        /\ result[Main].sequence = <<>>
        /\ result[Main].quality = <<>>
        /\ Len(result[Main].umi) = umi_length(linker.val)
        /\ Len(result[Main].sample_index) = sample_index_length(linker.val)

C7_Witness ==
    /\ Returned(Main)
    /\ prefix_str = <<"N", "N">>
    /\ suffix_str = <<>>
    /\ fq[Main].seq = <<"A", "C">>
    /\ result[Main].tag = "Some"
    /\ result[Main].umi = <<"A", "C">>
    /\ result[Main].sample_index = <<>>
    /\ result[Main].sequence = <<>>

\* =================================================================
\* Repeated calls by one thread
\* =================================================================
InitDet == InitWith(ValidSpecStrings)

\* The caller's record of the calls made so far: the record passed and the
\* value returned, in call order.
Logged(w) ==
    log' = IF pc'[w] = "done"
           THEN Append(log, [fq |-> fq[w], result |-> result'[w]])
           ELSE log

NextDet ==
    \/ New /\ UNCHANGED statsvars
    \/ \E r \in SampleRecords :
          /\ Len(log) < MaxCalls
          /\ Call(Main, r)
          /\ UNCHANGED statsvars
    \/ CheckLen(Main) /\ Logged(Main) /\ UNCHANGED statsvars
    \/ PrefixIter(Main) /\ Logged(Main) /\ UNCHANGED statsvars
    \/ SuffixStart(Main) /\ Logged(Main) /\ UNCHANGED statsvars
    \/ SuffixIter(Main) /\ Logged(Main) /\ UNCHANGED statsvars
    \/ Return(Main) /\ Logged(Main) /\ UNCHANGED statsvars

SpecDet == InitDet /\ [][NextDet]_vars

\* C8: split_record is deterministic: any two calls with the same record
\* (and the one LinkerSpec) return the same value, None or Some with the
\* same umi, sample_index, sequence and quality, whatever calls were made
\* in between on other records.
C8_Deterministic ==
    \A a \in 1..Len(log) : \A b \in 1..Len(log) :
        log[a].fq = log[b].fq => log[a].result = log[b].result

C8_Witness ==
    /\ Len(log) = 3
    /\ log[1].fq = fastq(SEQ3)
    /\ log[2].fq = fastq(SEQ1)
    /\ log[3].fq = fastq(SEQ3)
    /\ log[1].result.tag = "Some"
    /\ Len(log[1].result.umi) >= 2
    /\ log[2].result.tag = "None"

\* =================================================================
\* Several workers sharing one LinkerSpec
\* =================================================================
InitConc == InitWith(ValidSpecStrings)

\* Each worker splits one record of its own; the steps of the workers
\* interleave freely.
NextConc ==
    \/ New /\ UNCHANGED statsvars
    \/ \E w \in Workers : \E r \in SampleRecords :
          /\ pc[w] = "idle"
          /\ \A v \in Workers \ {w} : fq[v] # r
          /\ Call(w, r)
          /\ UNCHANGED statsvars
    \/ \E w \in Workers : CheckLen(w) /\ UNCHANGED log /\ UNCHANGED statsvars
    \/ \E w \in Workers : PrefixIter(w) /\ UNCHANGED log /\ UNCHANGED statsvars
    \/ \E w \in Workers : SuffixStart(w) /\ UNCHANGED log /\ UNCHANGED statsvars
    \/ \E w \in Workers : SuffixIter(w) /\ UNCHANGED log /\ UNCHANGED statsvars
    \/ \E w \in Workers : Return(w) /\ UNCHANGED log /\ UNCHANGED statsvars

SpecConc == InitConc /\ [][NextConc]_vars

\* C9: with several workers splitting distinct records against one shared
\* LinkerSpec, in every interleaving the LinkerSpec stays as constructed,
\* a record changes only when its own worker takes a new one, no worker
\* panics, and each worker's result is the result of splitting its record
\* alone.
C9_ConcurrentWorkers ==
    /\ [](\A w \in Workers :
            /\ pc[w] # "panic"
            /\ Returned(w) => result[w] = split_record(linker.val, fq[w]))
    /\ [][/\ linker.tag = "Ok" => linker' = linker
          /\ \A w \in Workers :
                fq'[w] # fq[w] => (pc[w] = "idle" /\ pc'[w] = "check")]_vars

C9_Witness ==
    /\ Returned(1)
    /\ result[1].tag = "Some"
    /\ Len(result[1].umi) >= 1
    /\ pc[2] = "suffix"
    /\ i[2] >= 1
    /\ Len(umi[2]) >= 2
    /\ fq[1] # fq[2]

\* =================================================================
\* AlignStats and AnnotStats (src/riboprof/fp_framing/stats.rs)
\* =================================================================
\* self.<counter> += 1 on a usize; the counters stay far below the word
\* size for any number of calls a run can make.
tally_fp_frame(as, fp_frame) ==
    CASE fp_frame = "NoGene" -> [as EXCEPT !.no_gene = @ + 1]
      [] fp_frame = "NoncodingOnly" -> [as EXCEPT !.noncoding = @ + 1]
      [] fp_frame = "NoncodingOverlap" -> [as EXCEPT !.noncoding_overlap = @ + 1]
      [] fp_frame = "MultiCoding" -> [as EXCEPT !.multi_coding = @ + 1]
      [] fp_frame = "Gene(NoCompatible)" -> [as EXCEPT !.incompatible = @ + 1]
      [] fp_frame = "Gene(Ambig)" -> [as EXCEPT !.ambig = @ + 1]
      [] fp_frame = "Gene(Good)" -> [as EXCEPT !.good = @ + 1]

\* Variant: the TooLong arm adds to short, as a copied line would.
tally_bam_frame_long_as_short(st, bam_frame) ==
    CASE bam_frame[1] = "NoHit" -> [st EXCEPT !.unmapped = @ + 1]
      [] bam_frame[1] = "MultiHit" -> [st EXCEPT !.multi_hit = @ + 1]
      [] bam_frame[1] = "TooShort" -> [st EXCEPT !.short = @ + 1]
      [] bam_frame[1] = "TooLong" -> [st EXCEPT !.short = @ + 1]
      [] bam_frame[1] = "Fp" ->
           [st EXCEPT !.annot_stats = tally_fp_frame(@, bam_frame[2])]

tally_bam_frame(st, bam_frame) ==
    CASE bam_frame[1] = "NoHit" -> [st EXCEPT !.unmapped = @ + 1]
      [] bam_frame[1] = "MultiHit" -> [st EXCEPT !.multi_hit = @ + 1]
      [] bam_frame[1] = "TooShort" -> [st EXCEPT !.short = @ + 1]
      [] bam_frame[1] = "TooLong" -> [st EXCEPT !.long = @ + 1]
      [] bam_frame[1] = "Fp" ->
           [st EXCEPT !.annot_stats = tally_fp_frame(@, bam_frame[2])]

AnnotStats_bad_total(as) ==
    as.no_gene + as.noncoding + as.noncoding_overlap + as.multi_coding
        + as.incompatible + as.ambig
AnnotStats_total(as) == AnnotStats_bad_total(as) + as.good

AlignStats_bad_total(st) == st.unmapped + st.short + st.long + st.multi_hit
AlignStats_good_total(st) == AnnotStats_total(st.annot_stats)
AlignStats_total(st) == AlignStats_bad_total(st) + AlignStats_good_total(st)

\* One call of AlignStats::tally_bam_frame; frames keeps the arguments of
\* the calls made so far, in order.
TallyBamFrame ==
    /\ Len(frames) < MaxTally
    /\ \E bam_frame \in BamFrameResults :
          /\ align_stats' = tally_bam_frame(align_stats, bam_frame)
          /\ frames' = Append(frames, bam_frame)
    /\ UNCHANGED <<flanking, framing_stats>>
    /\ UNCHANGED linkervars

InitTally == InitWith({<<>>})
NextTally == TallyBamFrame
SpecTally == InitTally /\ [][NextTally]_vars

\* The counters of an AlignStats, by name, and the counter the claim
\* assigns to each BamFrameResult.
CounterNames ==
    {"unmapped", "multi_hit", "short", "long", "no_gene", "noncoding",
     "noncoding_overlap", "multi_coding", "incompatible", "ambig", "good"}
Counters(st) ==
    [c \in CounterNames |->
        CASE c = "unmapped" -> st.unmapped
          [] c = "multi_hit" -> st.multi_hit
          [] c = "short" -> st.short
          [] c = "long" -> st.long
          [] c = "no_gene" -> st.annot_stats.no_gene
          [] c = "noncoding" -> st.annot_stats.noncoding
          [] c = "noncoding_overlap" -> st.annot_stats.noncoding_overlap
          [] c = "multi_coding" -> st.annot_stats.multi_coding
          [] c = "incompatible" -> st.annot_stats.incompatible
          [] c = "ambig" -> st.annot_stats.ambig
          [] c = "good" -> st.annot_stats.good]
CounterFor(bam_frame) ==
    CASE bam_frame = <<"NoHit">> -> "unmapped"
      [] bam_frame = <<"MultiHit">> -> "multi_hit"
      [] bam_frame = <<"TooShort">> -> "short"
      [] bam_frame = <<"TooLong">> -> "long"
      [] bam_frame = Fp("NoGene") -> "no_gene"
      [] bam_frame = Fp("NoncodingOnly") -> "noncoding"
      [] bam_frame = Fp("NoncodingOverlap") -> "noncoding_overlap"
      [] bam_frame = Fp("MultiCoding") -> "multi_coding"
      [] bam_frame = Fp("Gene(NoCompatible)") -> "incompatible"
      [] bam_frame = Fp("Gene(Ambig)") -> "ambig"
      [] bam_frame = Fp("Gene(Good)") -> "good"
IsFp(bam_frame) == bam_frame[1] = "Fp"
NumFrames(P(_)) == Cardinality({ k \in 1..Len(frames) : P(frames[k]) })

\* C11: from AlignStats::new() (all counters 0), every call of
\* tally_bam_frame adds 1 to exactly the counter of its argument (NoHit ->
\* unmapped, MultiHit -> multi_hit, TooShort -> short, TooLong -> long,
\* Fp(x) -> the AnnotStats counter of x) and leaves the others as they
\* were; so after n calls total() = bad_total() + good_total() = n,
\* bad_total() is the number of calls that were not Fp, and good_total() =
\* annot_stats.total() = annot_stats.bad_total() + annot_stats.good() is the
\* number of Fp calls.
C11_TallyCounts ==
    /\ [](LET IsBad(f) == ~IsFp(f)
              IsGoodAnnot(f) == f = Fp("Gene(Good)")
          IN /\ frames = <<>> => align_stats = AlignStats_new
             /\ AlignStats_total(align_stats) = Len(frames)
             /\ AlignStats_total(align_stats)
                  = AlignStats_bad_total(align_stats)
                      + AlignStats_good_total(align_stats)
             /\ AlignStats_bad_total(align_stats) = NumFrames(IsBad)
             /\ AlignStats_good_total(align_stats) = NumFrames(IsFp)
             /\ AlignStats_good_total(align_stats)
                  = AnnotStats_total(align_stats.annot_stats)
             /\ AnnotStats_total(align_stats.annot_stats)
                  = AnnotStats_bad_total(align_stats.annot_stats)
                      + align_stats.annot_stats.good
             /\ align_stats.annot_stats.good = NumFrames(IsGoodAnnot))
    /\ [][frames' # frames =>
            LET c == CounterFor(frames'[Len(frames')])
            IN /\ Len(frames') = Len(frames) + 1
               /\ Counters(align_stats')[c] = Counters(align_stats)[c] + 1
               /\ \A d \in CounterNames \ {c} :
                     Counters(align_stats')[d] = Counters(align_stats)[d]]_vars

C11_Witness ==
    /\ frames = <<<<"TooLong">>, Fp("Gene(Ambig)"), <<"NoHit">>, Fp("Gene(Good)")>>
    /\ align_stats.long = 1
    /\ align_stats.unmapped = 1
    /\ align_stats.annot_stats.ambig = 1
    /\ align_stats.annot_stats.good = 1
    /\ AlignStats_total(align_stats) = 4

\* =================================================================
\* FramingStats::new (src/riboprof/fp_framing/stats.rs)
\* =================================================================
Modulus == 2 ^ WordBits
\* x as usize, for an isize x: a negative value becomes x + 2^w.
as_usize(x) == IF x < 0 THEN x + Modulus ELSE x
min(a, b) == IF a <= b THEN a ELSE b

\* A build with overflow checks (debug) panics on an unsigned subtraction
\* below zero; a build without them (release) wraps it.
Builds == {"debug", "release"}

\* let flanking_len = flanking.end as usize
\*                    - min(flanking.end, flanking.start) as usize;
FramingStats_new(flank, build) ==
    LET a == as_usize(flank.end)
        b == as_usize(min(flank.end, flank.start))
    IN IF a >= b
       THEN [tag |-> "Ok", flanking_len |-> a - b, underflow |-> FALSE]
       ELSE IF build = "debug"
            THEN [tag |-> "Panic", flanking_len |-> 0, underflow |-> TRUE]
            ELSE [tag |-> "Ok", flanking_len |-> (a - b) + Modulus,
                  underflow |-> TRUE]

\* The signed ranges passed as flanking.
FlankRanges == [start : (-MaxFlank)..MaxFlank, end : (-MaxFlank)..MaxFlank]

InitFraming ==
    /\ prefix_str = <<>>
    /\ suffix_str = <<>>
    /\ linker = Unparsed
    /\ fq = [w \in Workers |-> NoRecord]
    /\ pc = [w \in Workers |-> "idle"]
    /\ i = [w \in Workers |-> 0]
    /\ umi = [w \in Workers |-> <<>>]
    /\ sample_index = [w \in Workers |-> <<>>]
    /\ suffix_start = [w \in Workers |-> 0]
    /\ result = [w \in Workers |-> Pending]
    /\ log = <<>>
    /\ align_stats = AlignStats_new
    /\ frames = <<>>
    /\ flanking \in FlankRanges
    /\ framing_stats = Unbuilt

\* FramingStats::new(lengths, flanking), under either build.
BuildFramingStats ==
    /\ framing_stats = Unbuilt
    /\ \E build \in Builds :
          framing_stats' = FramingStats_new(flanking, build)
    /\ align_stats' = AlignStats_new
    /\ UNCHANGED <<frames, flanking>>
    /\ UNCHANGED linkervars

NextFraming == BuildFramingStats
SpecFraming == InitFraming /\ [][NextFraming]_vars

\* C12: FramingStats::new computes flanking_len so that for every signed
\* range with start <= end (a negative start with a non-negative end
\* included) flanking_len = end - start and the unsigned subtraction does
\* not underflow, and for start > end flanking_len = 0.
C12_FlankingLenNoUnderflow ==
    framing_stats # Unbuilt =>
        /\ framing_stats.tag = "Ok"
        /\ ~framing_stats.underflow
        /\ framing_stats.flanking_len =
             IF flanking.start <= flanking.end
             THEN flanking.end - flanking.start
             ELSE 0

====
